---- MODULE Spec2Model ----
(***************************************************************************)
(* Model of the xarray backends for GeoClaw fixed grids                    *)
(* (src/src/python/geoclaw/xarray_backends.py): FGOutBackend.open_dataset, *)
(* FGMaxBackend.open_dataset and the helper _prepare_var.                  *)
(*                                                                         *)
(* Field values are integers in units of 0.001 m (so the dry tolerance     *)
(* 0.001 is 1); the fill value np.nan is the reserved value nodata, which  *)
(* the arithmetic and comparison operators below treat as IEEE NaN.        *)
(* Strings that the code takes apart (file names) are sequences of         *)
(* one-character strings; 2-D arrays are sequences of rows.                *)
(***************************************************************************)
EXTENDS Integers, Sequences, FiniteSets, TLC

VARIABLES
    backend,        \* which entry point is called: "FGOut" or "FGMax"
    filename,       \* argument: [abs, dirs, base] (a path)
    cwd,            \* the process's working directory (sequence of names)
    drop_variables, \* argument: [none |-> BOOLEAN, items |-> Seq(name)]
    disk,           \* what the run wrote: grid description, frame, fgmax output
    pc,             \* position in open_dataset
    type_code, fgno, frameno, output_format, outdir,   \* locals of the parse
    fg,             \* the FGoutGrid / FGmaxGrid object
    calls,          \* calls made to fgout_tools / fgmax_tools, in order
    q,              \* fgout.q, the decoded frame buffer (mutated in place)
    mask,           \* local mask
    x, y, time,     \* locals x, y, time
    i,              \* loop index
    qelements,      \* local _qelements
    data_vars,      \* local data_vars (dict: name -> array)
    result,         \* "none", "Dataset" or the name of the exception raised
    ds,             \* the returned container
    fields,         \* the FGmaxGrid's masked arrays (data mutated in place)
    ofield, omask, oout, ostep   \* state of the stand-alone _prepare_var runs

vars == <<backend, filename, cwd, drop_variables, disk, pc, type_code, fgno,
          frameno, output_format, outdir, fg, calls, q, mask, x, y, time, i,
          qelements, data_vars, result, ds, fields, ofield, omask, oout, ostep>>

-----------------------------------------------------------------------------
(* Bounds of the model *)

MaxNx == 2
MaxNy == 2
MaxVars == 9
MaxDrop == 2
MaxIdLen == 5
MaxPointStyle == 3
MaxDry == 2

-----------------------------------------------------------------------------
(* Module-level constants of xarray_backends.py *)

_qelements_dclaw == <<"h", "hu", "hv", "hm", "pb", "hchi", "delta_a", "eta">>
_qelements_geoclaw == <<"h", "hu", "hv", "eta">>

nodata == -999999

DryTolerance == 1

EtaMaskLimit == 7

IdWindow == 4

RequiredPointStyle == 2

-----------------------------------------------------------------------------
(* numpy on values and 2-D arrays *)

IsNaN(v) == v = nodata

FLess(a, b) == ~IsNaN(a) /\ ~IsNaN(b) /\ a < b

FAdd(a, b) == IF IsNaN(a) \/ IsNaN(b) THEN nodata ELSE a + b

Rows(A) == Len(A)
Cols(A) == IF Len(A) = 0 THEN 0 ELSE Len(A[1])

Transpose(A) == [c \in 1..Cols(A) |-> [r \in 1..Rows(A) |-> A[r][c]]]

FlipUD(A) == [r \in 1..Len(A) |-> A[Len(A) + 1 - r]]

MaskedAssign(A, M, v) ==
    [r \in 1..Rows(A) |-> [c \in 1..Cols(A) |-> IF M[r][c] THEN v ELSE A[r][c]]]

ArrLess(A, v) == [r \in 1..Rows(A) |-> [c \in 1..Cols(A) |-> FLess(A[r][c], v)]]

ArrAdd(A, B) == [r \in 1..Rows(A) |-> [c \in 1..Cols(A) |-> FAdd(A[r][c], B[r][c])]]

\* row-major flattening of a 2-D array
Ravel(A) == [k \in 1..(Rows(A) * Cols(A)) |->
                A[((k - 1) \div Cols(A)) + 1][((k - 1) % Cols(A)) + 1]]

\* Q.reshape((1, ni, nj)); fails when the sizes differ
ReshapeOk(A, ni, nj) == Rows(A) * Cols(A) = ni * nj

Reshape(A, ni, nj) ==
    <<[r \in 1..ni |-> [c \in 1..nj |-> Ravel(A)[(r - 1) * nj + c]]]>>

-----------------------------------------------------------------------------
(* Python string operations on sequences of characters *)

DigitVal == ("0" :> 0) @@ ("1" :> 1) @@ ("2" :> 2) @@ ("3" :> 3) @@ ("4" :> 4)
            @@ ("5" :> 5) @@ ("6" :> 6) @@ ("7" :> 7) @@ ("8" :> 8) @@ ("9" :> 9)

IsDigit(c) == c \in DOMAIN DigitVal

\* s[-n:]
LastN(s, n) == IF Len(s) <= n THEN s ELSE SubSeq(s, Len(s) - n + 1, Len(s))

\* index of the first sep in s at or after position k, 0 if none
RECURSIVE FindFrom(_, _, _)
FindFrom(s, sep, k) ==
    IF k > Len(s) THEN 0
    ELSE IF s[k] = sep THEN k
    ELSE FindFrom(s, sep, k + 1)

\* s.split(sep)
RECURSIVE Split(_, _)
Split(s, sep) ==
    LET k == FindFrom(s, sep, 1)
    IN  IF k = 0 THEN <<s>>
        ELSE <<SubSeq(s, 1, k - 1)>> \o Split(SubSeq(s, k + 1, Len(s)), sep)

RECURSIVE LStrip(_)
LStrip(s) == IF Len(s) > 0 /\ s[1] = " " THEN LStrip(Tail(s)) ELSE s

RECURSIVE RStrip(_)
RStrip(s) ==
    IF Len(s) > 0 /\ s[Len(s)] = " " THEN RStrip(SubSeq(s, 1, Len(s) - 1)) ELSE s

\* the digits of an int literal: digits, single underscores between digits
IntBodyOk(s) ==
    /\ Len(s) > 0
    /\ \A k \in 1..Len(s) :
          \/ IsDigit(s[k])
          \/ /\ s[k] = "_"
             /\ k > 1 /\ k < Len(s)
             /\ IsDigit(s[k - 1]) /\ IsDigit(s[k + 1])

RECURSIVE DigitsValue(_, _)
DigitsValue(s, acc) ==
    IF Len(s) = 0 THEN acc
    ELSE IF s[1] = "_" THEN DigitsValue(Tail(s), acc)
    ELSE DigitsValue(Tail(s), 10 * acc + DigitVal[s[1]])

\* int(s): [ok, val]; not ok is ValueError
PyInt(s) ==
    LET t == RStrip(LStrip(s))
        signed == Len(t) > 0 /\ t[1] \in {"+", "-"}
        body == IF signed THEN Tail(t) ELSE t
    IN  IF IntBodyOk(body)
        THEN [ok |-> TRUE,
              val |-> IF signed /\ t[1] = "-" THEN 0 - DigitsValue(body, 0)
                      ELSE DigitsValue(body, 0)]
        ELSE [ok |-> FALSE, val |-> 0]

\* os.path.abspath(filename): the directories and the base name
AbsDirs(f, wd) == IF f.abs THEN f.dirs ELSE wd \o f.dirs

\* variant: the first directory of the path instead of the last
DirBasename_First(dirs) == IF Len(dirs) = 0 THEN "" ELSE dirs[1]

\* os.path.basename(os.path.dirname(full_path))
DirBasename(dirs) == IF Len(dirs) = 0 THEN "" ELSE dirs[Len(dirs)]

-----------------------------------------------------------------------------
(* Python dict and list operations *)

EmptyDict == [n \in {} |-> <<>>]

DictSet(d, k, v) == [n \in (DOMAIN d) \cup {k} |-> IF n = k THEN v ELSE d[n]]

DictDel(d, k) == [n \in (DOMAIN d) \ {k} |-> d[n]]

InList(v, L) == \E k \in 1..Len(L) : L[k] = v

\* "if drop_variables is None: drop_variables = []"
DropList(arg) == IF arg.none THEN <<>> ELSE arg.items

-----------------------------------------------------------------------------
(* What the run wrote: the inputs the reader finds on disk *)

NameFgout == <<"f", "g", "o", "u", "t">>
NameFgmax == <<"f", "g", "m", "a", "x">>
ExtTxt == <<"t", "x", "t">>

Cells(nx, ny) == (1..nx) \X (1..ny)

\* solver coordinate vectors, strictly ascending
SolverX(nx) == [k \in 1..nx |-> 10 * (k - 1)]
SolverY(ny) == [k \in 1..ny |-> 5 * (k - 1)]

\* a decoded field whose cells all differ, so that a misplaced cell shows
Pattern(c, nx, ny) ==
    [xi \in 1..nx |-> [yi \in 1..ny |->
        IF c = 2 THEN 0 - (100 * c + 10 * xi + yi) ELSE 100 * c + 10 * xi + yi]]

\* depth: 0 in the dry cells; the wet cell (1,1) is exactly at the tolerance
DepthField(nx, ny, dry) ==
    [xi \in 1..nx |-> [yi \in 1..ny |->
        IF <<xi, yi>> \in dry THEN 0
        ELSE DryTolerance + 10 * (xi - 1) + (yi - 1)]]

\* the frame's q: channel 1 is the depth
FrameQ(nvars, nx, ny, dry) ==
    [c \in 1..nvars |-> IF c = 1 THEN DepthField(nx, ny, dry) ELSE Pattern(c, nx, ny)]

MaskOf(nx, ny, S) == [xi \in 1..nx |-> [yi \in 1..ny |-> <<xi, yi>> \in S]]

Topography(nx, ny) == [xi \in 1..nx |-> [yi \in 1..ny |-> 10 * xi + yi - 15]]

FGMaxFieldNames(nval) ==
    {"arrival_time", "h", "h_time", "B"}
    \cup (IF nval >= 2 THEN {"s", "s_time"} ELSE {})
    \cup (IF nval >= 5
          THEN {"hs", "hs_time", "hss", "hss_time", "hmin", "hmin_time"} ELSE {})

FGMaxFieldNo ==
    ("arrival_time" :> 1) @@ ("h" :> 2) @@ ("h_time" :> 3) @@ ("B" :> 4)
    @@ ("s" :> 5) @@ ("s_time" :> 6) @@ ("hs" :> 7) @@ ("hs_time" :> 8)
    @@ ("hss" :> 9) @@ ("hss_time" :> 10) @@ ("hmin" :> 11) @@ ("hmin_time" :> 12)

\* the masked arrays of the accumulation record: h has mask hm, the others om
FGMaxRecord(nval, nx, ny, hm, om) ==
    [f \in FGMaxFieldNames(nval) |->
        [data |-> IF f = "B" THEN Topography(nx, ny)
                  ELSE IF f = "h" THEN DepthField(nx, ny, {})
                  ELSE Pattern(FGMaxFieldNo[f], nx, ny),
         mask |-> IF f = "h" THEN MaskOf(nx, ny, hm) ELSE MaskOf(nx, ny, om)]]

\* an attribute the FGmaxGrid object holds as None: no array, no mask
NoneAttr == [data |-> <<>>, mask |-> <<>>]

\* the record on a grid object whose untracked channels are None attributes
WithUnset(rec) ==
    [f \in FGMaxFieldNames(5) |-> IF f \in DOMAIN rec THEN rec[f] ELSE NoneAttr]

Disk(grids, style, frames, nvars, nx, ny, dry, nval, om) ==
    [grids |-> grids, point_style |-> style, frames |-> frames,
     x |-> SolverX(nx), y |-> SolverY(ny), t |-> 5,
     q |-> FrameQ(nvars, nx, ny, dry),
     fgmax |-> FGMaxRecord(nval, nx, ny, dry, om)]

CanonGrids == {7}
CanonFrames == {7, 12}

CanonDisk(nvars, nval) ==
    Disk(CanonGrids, RequiredPointStyle, CanonFrames, nvars, MaxNx, MaxNy,
         {<<1, 1>>}, nval, {})

CanonBase(b) ==
    IF b = "FGOut" THEN NameFgout \o <<"0", "0", "0", "7", ".", "b", "0", "0", "1", "2">>
    ELSE NameFgmax \o <<"0", "0", "0", "7", ".">> \o ExtTxt

CanonFile(b) == [abs |-> FALSE, dirs |-> <<"_output">>, base |-> CanonBase(b)]

CanonCwd == <<"run">>

NoDrop == [none |-> TRUE, items |-> <<>>]

Backends == {"FGOut", "FGMax"}

\* id fields of file names
IdChars == {"0", "7", "x"}

SeqsUpTo(S, n) == UNION {[1..k -> S] : k \in 0..n}

IdFields == SeqsUpTo(IdChars, MaxIdLen)

TypeChars == {"q", "b", "x"}

SpecialBases ==
    { <<"b", "0", "0", "0", "7">>,
      NameFgout \o <<"0", "0", "0", "7">>,
      NameFgout \o <<"0", "0", "0", "7", ".", "b", "0", "0", "1", "2", ".", "b", "a", "k">>,
      NameFgout \o <<"0", "0", "0", "7", ".">>,
      <<".", "b", "0", "0", "1", "2">>,
      NameFgout \o <<"-", "0", "0", "7", ".", "b", "0", "0", "1", "2">>,
      NameFgout \o <<"+", "0", "0", "7", ".", "q", "0", "0", "1", "2">>,
      NameFgout \o <<" ", "0", "0", "7", ".", "b", " ", "0", "1", "2">>,
      NameFgout \o <<"0", "_", "0", "7", ".", "b", "0", "0", "1", "2">>,
      NameFgout \o <<"0", "0", "0", "7", ".", "b", "0", "_", "1", "2">>,
      NameFgout \o <<"_", "0", "0", "7", ".", "b", "0", "0", "1", "2">>,
      NameFgmax \o <<"0", "0", "0", "7">>,
      <<"7">> }

\* file names of every shape: the grid id field varies, then the frame id field
FGOutBase(kind, p, f, c) ==
    IF kind = 1 THEN p \o f \o <<".", c, "0", "0", "1", "2">>
    ELSE NameFgout \o <<"0", "0", "0", "7", ".">> \o (IF c = "" THEN <<>> ELSE <<c>>) \o f

FGMaxBase(p, f) == p \o f \o <<".">> \o ExtTxt

FGOutNames == {_qelements_dclaw[k] : k \in 1..Len(_qelements_dclaw)}

DropNames(b) == (IF b = "FGOut" THEN FGOutNames ELSE {"h_max", "eta_max", "s_max", "h_min"})
                \cup {"bogus"}

NoGrid == [point_style |-> 0 - 1, loaded |-> FALSE, record |-> FALSE]

\* the state at the call: the arguments, the working directory and the disk
Start(b, f, wd, d, k) ==
    /\ backend = b
    /\ filename = f
    /\ cwd = wd
    /\ drop_variables = d
    /\ disk = k
    /\ pc = "start"
    /\ type_code = "" /\ fgno = 0 /\ frameno = 0 /\ output_format = "" /\ outdir = ""
    /\ fg = NoGrid
    /\ calls = <<>>
    /\ q = <<>> /\ mask = <<>> /\ x = <<>> /\ y = <<>> /\ time = 0
    /\ i = 0
    /\ qelements = <<>>
    /\ data_vars = EmptyDict
    /\ result = "none"
    /\ ds = EmptyDict
    /\ fields = EmptyDict
    /\ ofield = <<>> /\ omask = <<>> /\ oout = <<>> /\ ostep = 0

NamedFile(n) == [abs |-> FALSE, dirs |-> <<"_output">>, base |-> n]

\* file names of every shape, on the canonical run
InitNames ==
    \/ \E kind \in {1, 2}, p \in {<<>>, NameFgout}, f \in IdFields,
          c \in TypeChars \cup {""} :
          /\ kind = 1 => c # ""
          /\ kind = 2 => p = <<>>
          /\ Start("FGOut", NamedFile(FGOutBase(kind, p, f, c)), CanonCwd, NoDrop,
                   CanonDisk(4, 1))
    \/ \E p \in {<<>>, NameFgmax}, f \in IdFields :
          Start("FGMax", NamedFile(FGMaxBase(p, f)), CanonCwd, NoDrop, CanonDisk(4, 1))
    \/ \E b \in Backends, n \in SpecialBases :
          Start(b, NamedFile(n), CanonCwd, NoDrop, CanonDisk(4, 1))

\* the ways of naming the same file, from two working directories
InitPaths ==
    \E b \in Backends, a \in BOOLEAN,
       d \in {<<>>, <<"_output">>, <<"run", "_output">>}, wd \in {CanonCwd, <<"tmp">>} :
        Start(b, [abs |-> a, dirs |-> d, base |-> CanonBase(b)], wd, NoDrop,
              CanonDisk(4, 1))

\* grid descriptions: every point style, grid or frame missing
InitGrids ==
    \E b \in Backends, g \in {CanonGrids, {}}, s \in 0..MaxPointStyle,
       f \in {CanonFrames, {}} :
        Start(b, CanonFile(b), CanonCwd, NoDrop,
              Disk(g, s, f, 4, MaxNx, MaxNy, {<<1, 1>>}, 1, {}))

\* the sets of at most MaxDry cells
DrySets(nx, ny) == {S \in SUBSET Cells(nx, ny) : Cardinality(S) <= MaxDry}

\* records: every channel count, grid shape and set of dry (masked) cells
\* (fgmax: untracked channels are missing attributes, u false, or None, u true)
InitRecords ==
    \E nx \in 1..MaxNx, ny \in 1..MaxNy :
        \E dry \in DrySets(nx, ny) :
            \/ \E n \in 1..MaxVars :
                  Start("FGOut", CanonFile("FGOut"), CanonCwd, NoDrop,
                        Disk(CanonGrids, RequiredPointStyle, CanonFrames, n, nx, ny,
                             dry, 1, {}))
            \/ \E n \in {1, 2, 5}, om \in {{}, dry, Cells(nx, ny)}, u \in BOOLEAN :
                  Start("FGMax", CanonFile("FGMax"), CanonCwd, NoDrop,
                        [Disk(CanonGrids, RequiredPointStyle, CanonFrames, 4, nx, ny,
                              dry, n, om)
                            EXCEPT !.fgmax = IF u THEN WithUnset(@) ELSE @])

\* exclusion lists, with repeats, unknown names and every order
InitDrops ==
    \E b \in Backends :
        \E L \in SeqsUpTo(DropNames(b), MaxDrop), n \in {<<2, 1>>, <<4, 2>>, <<8, 5>>} :
            Start(b, CanonFile(b), CanonCwd, [none |-> FALSE, items |-> L],
                  CanonDisk(n[1], n[2]))

Init == InitNames \/ InitPaths \/ InitGrids \/ InitRecords \/ InitDrops

-----------------------------------------------------------------------------
(* fgout_tools and fgmax_tools, as far as the backends use them *)

Call(op, gridno, frame, dir, fmt) ==
    [op |-> op, fgno |-> gridno, frameno |-> frame, outdir |-> dir, format |-> fmt]

\* FGoutGrid(fgno, outdir, output_format) and FGmaxGrid(): nothing read yet
NewGrid == [point_style |-> RequiredPointStyle, loaded |-> FALSE, record |-> FALSE]

\* read_fgout_grids_data / read_fgmax_grids_data: the description has the grid
GridDescribed(d, gridno) == gridno \in d.grids

LoadedGrid(d) == [point_style |-> d.point_style, loaded |-> TRUE, record |-> FALSE]

\* read_frame: the frame file exists
FrameExists(d, frame) == frame \in d.frames

\* the directory a call of the tools reads in: the grid object's outdir is a
\* relative name, taken from the working directory; with no outdir given,
\* fgmax_grids.data is looked for in the working directory itself (line 267)
\* and the accumulation output in its "_output"
ReadDir(call, wd) ==
    IF call.outdir # "" THEN wd \o <<call.outdir>>
    ELSE IF call.op = "read_output" THEN wd \o <<"_output">>
    ELSE wd

-----------------------------------------------------------------------------
(* _prepare_var *)

\* "data[mask] = nodata": what the caller's buffer holds afterwards
PrepareVarInPlace(data, m) == MaskedAssign(data, m, nodata)

\* variant: transposed but not flipped
PrepareVarData_NoFlip(data, m) == Transpose(PrepareVarInPlace(data, m))

\* "data = data.T; data = np.flipud(data)" on the masked buffer
PrepareVarData(data, m) == FlipUD(Transpose(PrepareVarInPlace(data, m)))

_prepare_var(data, m, dims, units, long_name) ==
    [dims |-> dims, data |-> PrepareVarData(data, m), units |-> units,
     long_name |-> long_name]

-----------------------------------------------------------------------------
(* FGOutBackend.open_dataset *)

_qunits ==
    ("h" :> "meters") @@ ("hu" :> "meters squared per second")
    @@ ("hv" :> "meters squared per second") @@ ("hm" :> "meters")
    @@ ("pb" :> "newton per meter squared") @@ ("hchi" :> "meters")
    @@ ("delta_a" :> "meters") @@ ("eta" :> "meters")

Raise(e) ==
    /\ pc' = "done"
    /\ result' = e

\* the encoding a type code selects; "" is the ValueError branch
OutputFormat(c) ==
    IF c = "q" THEN "ascii" ELSE IF c = "b" THEN "binary32" ELSE ""

\* filename.split(".")[0][-4:]
GridIdText(base) == LastN(Split(base, ".")[1], IdWindow)

\* variant: the frame id taken from the part before the first dot
FrameIdText_FromStem(base) == GridIdText(base)

\* filename.split(".")[-1][-4:]
FrameIdText(base) ==
    LET parts == Split(base, ".") IN LastN(parts[Len(parts)], IdWindow)

\* lines 157-165: the exception raised ("" if none) and the values parsed
FGOutParseName(base) ==
    LET parts == Split(base, ".")
        last == parts[Len(parts)]
        g == PyInt(GridIdText(base))
        f == PyInt(FrameIdText(base))
        err == IF Len(last) = 0 THEN "IndexError"
               ELSE IF ~g.ok THEN "ValueError"
               ELSE IF ~f.ok THEN "ValueError"
               ELSE IF OutputFormat(last[1]) = "" THEN "ValueError"
               ELSE ""
    IN  [err |-> err,
         type_code |-> IF Len(last) = 0 THEN "" ELSE last[1],
         fgno |-> g.val, frameno |-> f.val,
         output_format |-> IF Len(last) = 0 THEN "" ELSE OutputFormat(last[1])]

FGOutParse ==
    /\ pc = "start" /\ backend = "FGOut"
    /\ LET p == FGOutParseName(filename.base)
       IN  IF p.err # ""
           THEN /\ Raise(p.err)
                /\ UNCHANGED <<type_code, fgno, frameno, output_format, outdir>>
           ELSE /\ pc' = "construct"
                /\ type_code' = p.type_code
                /\ fgno' = p.fgno
                /\ frameno' = p.frameno
                /\ output_format' = p.output_format
                /\ outdir' = DirBasename(AbsDirs(filename, cwd))
                /\ UNCHANGED result
    /\ UNCHANGED <<backend, filename, cwd, drop_variables, disk, fg, calls, q, mask,
                   x, y, time, i, qelements, data_vars, ds, fields,
                   ofield, omask, oout, ostep>>

\* line 167
FGOutConstruct ==
    /\ pc = "construct"
    /\ fg' = NewGrid
    /\ calls' = Append(calls, Call("FGoutGrid", fgno, 0, outdir, output_format))
    /\ pc' = "check"
    /\ UNCHANGED <<backend, filename, cwd, drop_variables, disk, type_code, fgno,
                   frameno, output_format, outdir, q, mask, x, y, time, i,
                   qelements, data_vars, result, ds, fields,
                   ofield, omask, oout, ostep>>

\* lines 169-170
FGOutCheck ==
    /\ pc = "check"
    /\ IF fg.point_style # RequiredPointStyle
       THEN Raise("ValueError")
       ELSE pc' = "read_grids" /\ UNCHANGED result
    /\ UNCHANGED <<backend, filename, cwd, drop_variables, disk, type_code, fgno,
                   frameno, output_format, outdir, fg, calls, q, mask, x, y, time,
                   i, qelements, data_vars, ds, fields, ofield, omask, oout, ostep>>

\* line 172
FGOutReadGrids ==
    /\ pc = "read_grids"
    /\ calls' = Append(calls, Call("read_fgout_grids_data", fgno, 0, outdir, output_format))
    /\ IF GridDescribed(disk, fgno)
       THEN fg' = LoadedGrid(disk) /\ pc' = "read_frame" /\ UNCHANGED result
       ELSE Raise("ConfigError") /\ UNCHANGED fg
    /\ UNCHANGED <<backend, filename, cwd, drop_variables, disk, type_code, fgno,
                   frameno, output_format, outdir, q, mask, x, y, time, i,
                   qelements, data_vars, ds, fields, ofield, omask, oout, ostep>>

\* line 173
FGOutReadFrame ==
    /\ pc = "read_frame"
    /\ calls' = Append(calls, Call("read_frame", fgno, frameno, outdir, output_format))
    /\ IF FrameExists(disk, frameno)
       THEN /\ q' = disk.q
            /\ fg' = [fg EXCEPT !.record = TRUE]
            /\ pc' = "setup"
            /\ UNCHANGED result
       ELSE Raise("IOError") /\ UNCHANGED <<q, fg>>
    /\ UNCHANGED <<backend, filename, cwd, drop_variables, disk, type_code, fgno,
                   frameno, output_format, outdir, mask, x, y, time, i,
                   qelements, data_vars, ds, fields, ofield, omask, oout, ostep>>

\* variant: y left as the solver stores it
FGOutY_NotFlipped(solver_y) == solver_y

\* line 178: y = np.flipud(fgout.y)
FGOutY(solver_y) == FlipUD(solver_y)

\* line 183: mask = fgout.q[0, :, :] < 0.001
DryMask(buf) == ArrLess(buf[1], DryTolerance)

\* lines 186-190
SelectQElements(nvars) ==
    IF nvars = Len(_qelements_dclaw) THEN _qelements_dclaw ELSE _qelements_geoclaw

\* lines 175-193
FGOutSetup ==
    /\ pc = "setup"
    /\ time' = disk.t
    /\ x' = disk.x
    /\ y' = FGOutY(disk.y)
    /\ mask' = DryMask(q)
    /\ qelements' = SelectQElements(Len(q))
    /\ data_vars' = EmptyDict
    /\ i' = 0
    /\ pc' = "loop"
    /\ UNCHANGED <<backend, filename, cwd, drop_variables, disk, type_code, fgno,
                   frameno, output_format, outdir, fg, calls, q, result, ds,
                   fields, ofield, omask, oout, ostep>>

\* variant: every channel masked
MaskChannel_EveryChannel(Q, m, k) == MaskedAssign(Q, m, nodata)

\* lines 197-198: "if i < 7: Q[mask] = nodata" (i counts from 0)
MaskChannel(Q, m, k) == IF k < EtaMaskLimit THEN MaskedAssign(Q, m, nodata) ELSE Q

\* variant: transposed and reshaped, not flipped
OrientChannel_NoFlip(Q, ni, nj) == Reshape(Transpose(Q), ni, nj)

\* lines 201-203
OrientChannel(Q, ni, nj) == Reshape(FlipUD(Transpose(Q)), ni, nj)

\* variant: only the first listed name is looked at
Kept_FirstOnly(varname, drops) == Len(drops) = 0 \/ drops[1] # varname

\* line 210: the variable is kept
Kept(varname, drops) == ~InList(varname, drops)

\* variant: the mask taken again from the buffer at each pass
LoopMask_Recomputed(m, buf) == DryMask(buf)

\* line 198: the mask used in the loop is the one computed at line 183
LoopMask(m, buf) == m

\* lines 194-219: one pass of the loop body
FGOutLoop ==
    /\ pc = "loop" /\ i < Len(q)
    /\ LET Q == MaskChannel(q[i + 1], LoopMask(mask, q), i)
           nj == Len(x)
           ni == Len(y)
       IN  /\ q' = [q EXCEPT ![i + 1] = Q]
           /\ IF ~ReshapeOk(Q, ni, nj)
              THEN Raise("ValueError") /\ UNCHANGED <<data_vars, i>>
              ELSE IF i + 1 > Len(qelements)
              THEN Raise("IndexError") /\ UNCHANGED <<data_vars, i>>
              ELSE LET varname == qelements[i + 1]
                   IN  /\ data_vars' =
                             IF Kept(varname, DropList(drop_variables))
                             THEN DictSet(data_vars, varname,
                                          [dims |-> <<"time", "y", "x">>,
                                           data |-> OrientChannel(Q, ni, nj),
                                           units |-> _qunits[varname]])
                             ELSE data_vars
                       /\ i' = i + 1
                       /\ UNCHANGED <<pc, result>>
    /\ UNCHANGED <<backend, filename, cwd, drop_variables, disk, type_code, fgno,
                   frameno, output_format, outdir, fg, calls, mask, x, y, time,
                   qelements, ds, fields, ofield, omask, oout, ostep>>

Dataset(vs, cx, cy, ct, descr) ==
    [data_vars |-> vs, x |-> cx, y |-> cy, time |-> ct, description |-> descr]

\* line 221: ds_attrs = {"description": ...}, whatever the channel count
FGOutDescription(nvars) == "Clawpack model output"

\* lines 221-246
FGOutBuild ==
    /\ pc = "loop" /\ i = Len(q)
    /\ ds' = Dataset(data_vars, x, y, <<time>>, FGOutDescription(Len(q)))
    /\ result' = "Dataset"
    /\ pc' = "done"
    /\ UNCHANGED <<backend, filename, cwd, drop_variables, disk, type_code, fgno,
                   frameno, output_format, outdir, fg, calls, q, mask, x, y, time,
                   i, qelements, data_vars, fields, ofield, omask, oout, ostep>>

-----------------------------------------------------------------------------
(* FGMaxBackend.open_dataset *)

\* line 268: [ok, val] of int(os.path.basename(filename).split(".")[0][-4:])
FGMaxParseName(base) == PyInt(GridIdText(base))

FGMaxParse ==
    /\ pc = "start" /\ backend = "FGMax"
    /\ LET p == FGMaxParseName(filename.base)
       IN  IF p.ok
           THEN fgno' = p.val /\ pc' = "max_load" /\ UNCHANGED result
           ELSE Raise("ValueError") /\ UNCHANGED fgno
    /\ UNCHANGED <<backend, filename, cwd, drop_variables, disk, type_code,
                   frameno, output_format, outdir, fg, calls, q, mask, x, y, time,
                   i, qelements, data_vars, ds, fields, ofield, omask, oout, ostep>>

\* lines 270-271
FGMaxLoad ==
    /\ pc = "max_load"
    /\ calls' = calls \o <<Call("FGmaxGrid", 0, 0, "", ""),
                           Call("read_fgmax_grids_data", fgno, 0, "", "")>>
    /\ IF GridDescribed(disk, fgno)
       THEN fg' = LoadedGrid(disk) /\ pc' = "max_check" /\ UNCHANGED result
       ELSE Raise("ConfigError") /\ fg' = NewGrid
    /\ UNCHANGED <<backend, filename, cwd, drop_variables, disk, type_code, fgno,
                   frameno, output_format, outdir, q, mask, x, y, time, i,
                   qelements, data_vars, ds, fields, ofield, omask, oout, ostep>>

\* lines 272-273
FGMaxCheck ==
    /\ pc = "max_check"
    /\ IF fg.point_style # RequiredPointStyle
       THEN Raise("ValueError")
       ELSE pc' = "max_read" /\ UNCHANGED result
    /\ UNCHANGED <<backend, filename, cwd, drop_variables, disk, type_code, fgno,
                   frameno, output_format, outdir, fg, calls, q, mask, x, y, time,
                   i, qelements, data_vars, ds, fields, ofield, omask, oout, ostep>>

\* line 275
FGMaxRead ==
    /\ pc = "max_read"
    /\ calls' = Append(calls, Call("read_output", fgno, 0, "", ""))
    /\ fields' = disk.fgmax
    /\ fg' = [fg EXCEPT !.record = TRUE]
    /\ pc' = "max_assemble"
    /\ UNCHANGED <<backend, filename, cwd, drop_variables, disk, type_code, fgno,
                   frameno, output_format, outdir, q, mask, x, y, time, i,
                   qelements, data_vars, result, ds, ofield, omask, oout, ostep>>

\* the record after _prepare_var has masked the named arrays in place
MaskedInPlace(fs, names) ==
    [f \in DOMAIN fs |->
        IF f \in names
        THEN [fs[f] EXCEPT !.data = PrepareVarInPlace(fs[f].data, fs[f].mask)]
        ELSE fs[f]]

\* variant: the topography left out
EtaMaxData_NoTopography(fs) == fs["h"].data

\* line 313: fg.h.data + fg.B.data, evaluated after h_max was prepared
EtaMaxData(fs) == ArrAdd(fs["h"].data, fs["B"].data)

\* variant: only "hasattr(fg, name)"
HasField_AttrOnly(fs, name) == name \in DOMAIN fs

\* lines 336-337, 360-361: "hasattr(fg, name)" then "hasattr(fg.name, 'data')"
HasField(fs, name) == name \in DOMAIN fs /\ fs[name] # NoneAttr

\* the variables made from arrays read as they are: name, array, units, long name
FGMaxPlain ==
    << <<"arrival_time", "arrival_time", "seconds", "Wave arrival time", "">>,
       <<"h_max", "h", "meters", "Maximum water depth", "">>,
       <<"h_max_time", "h_time", "seconds", "Time of maximum water depth", "">>,
       <<"s_max", "s", "meters per second", "Maximum velocity", "s">>,
       <<"s_max_time", "s_time", "seconds", "Time of maximum velocity", "s">>,
       <<"hs_max", "hs", "meters squared per second", "Maximum momentum", "hs">>,
       <<"hs_max_time", "hs_time", "seconds", "Time of maximum momentum", "hs">>,
       <<"hss_max", "hss", "meters cubed per second squared", "Maximum momentum flux", "hs">>,
       <<"hss_max_time", "hss_time", "seconds", "Time of maximum momentum flux", "hs">>,
       <<"h_min", "hmin", "meters", "Minimum depth", "hs">>,
       <<"h_min_time", "hmin_time", "seconds", "Time of minimum depth", "hs">> >>

\* the rows of FGMaxPlain whose guard (fifth entry) the record passes
FGMaxProduced(fs) ==
    {k \in 1..Len(FGMaxPlain) : FGMaxPlain[k][5] = "" \/ HasField(fs, FGMaxPlain[k][5])}

\* lines 286-429: data_vars
FGMaxDataVars(fs) ==
    LET rows == FGMaxProduced(fs)
        afterH == MaskedInPlace(fs, {"arrival_time", "h"})
        plain == [n \in {FGMaxPlain[k][1] : k \in rows} |->
                    LET k == CHOOSE kk \in rows : FGMaxPlain[kk][1] = n
                    IN  _prepare_var(fs[FGMaxPlain[k][2]].data, fs[FGMaxPlain[k][2]].mask,
                                     <<"y", "x">>, FGMaxPlain[k][3], FGMaxPlain[k][4])]
    IN  DictSet(plain, "eta_max",
                _prepare_var(EtaMaxData(afterH), afterH["h"].mask, <<"y", "x">>,
                             "meters", "Maximum water surface elevation"))

\* variant: _prepare_var works on a copy
FGMaxBuffers_Untouched(fs) == fs

\* lines 286-429: the record's buffers afterwards
FGMaxBuffers(fs) ==
    MaskedInPlace(fs, {FGMaxPlain[k][2] : k \in FGMaxProduced(fs)})

\* line 280
FGMaxY(solver_y) == FlipUD(solver_y)

\* lines 277-429
FGMaxAssemble ==
    /\ pc = "max_assemble"
    /\ x' = disk.x
    /\ y' = FGMaxY(disk.y)
    /\ data_vars' = FGMaxDataVars(fields)
    /\ fields' = FGMaxBuffers(fields)
    /\ i' = 0
    /\ pc' = "max_drop"
    /\ UNCHANGED <<backend, filename, cwd, drop_variables, disk, type_code, fgno,
                   frameno, output_format, outdir, fg, calls, q, mask, time,
                   qelements, result, ds, ofield, omask, oout, ostep>>

\* lines 433-434: "if var in data_vars.keys(): del data_vars[var]"
DropVar(d, var) == IF var \in DOMAIN d THEN DictDel(d, var) ELSE d

\* lines 432-434: one pass of the loop over drop_variables
FGMaxDrop ==
    /\ pc = "max_drop" /\ i < Len(DropList(drop_variables))
    /\ data_vars' = DropVar(data_vars, DropList(drop_variables)[i + 1])
    /\ i' = i + 1
    /\ UNCHANGED <<backend, filename, cwd, drop_variables, disk, pc, type_code, fgno,
                   frameno, output_format, outdir, fg, calls, q, mask, x, y, time,
                   qelements, result, ds, fields, ofield, omask, oout, ostep>>

\* lines 436-461
FGMaxBuild ==
    /\ pc = "max_drop" /\ i = Len(DropList(drop_variables))
    /\ ds' = Dataset(data_vars, x, y, <<>>, "D-Claw model output")
    /\ result' = "Dataset"
    /\ pc' = "done"
    /\ UNCHANGED <<backend, filename, cwd, drop_variables, disk, type_code, fgno,
                   frameno, output_format, outdir, fg, calls, q, mask, x, y, time,
                   i, qelements, data_vars, fields, ofield, omask, oout, ostep>>

-----------------------------------------------------------------------------

(* _prepare_var applied on its own, twice: to a field with its mask, then to
   the result with an empty mask *)

EmptyMask(A) == [r \in 1..Rows(A) |-> [c \in 1..Cols(A) |-> FALSE]]

InitOrient ==
    /\ backend = "none"
    /\ filename = CanonFile("FGOut")
    /\ cwd = CanonCwd
    /\ drop_variables = NoDrop
    /\ disk = CanonDisk(4, 1)
    /\ pc = "orient"
    /\ type_code = "" /\ fgno = 0 /\ frameno = 0 /\ output_format = "" /\ outdir = ""
    /\ fg = NoGrid
    /\ calls = <<>>
    /\ q = <<>> /\ mask = <<>> /\ x = <<>> /\ y = <<>> /\ time = 0
    /\ i = 0
    /\ qelements = <<>>
    /\ data_vars = EmptyDict
    /\ result = "none"
    /\ ds = EmptyDict
    /\ fields = EmptyDict
    /\ \E nr \in 1..MaxNx, nc \in 1..MaxNy, c \in {1, 2} :
          \E S \in SUBSET Cells(nr, nc) :
              ofield = Pattern(c, nr, nc) /\ omask = MaskOf(nr, nc, S)
    /\ oout = <<>>
    /\ ostep = 0

\* _prepare_var(F, M, ...): the buffer F is masked in place
OrientFirst ==
    /\ pc = "orient" /\ ostep = 0
    /\ oout' = _prepare_var(ofield, omask, <<"y", "x">>, "", "").data
    /\ ofield' = PrepareVarInPlace(ofield, omask)
    /\ ostep' = 1
    /\ UNCHANGED <<backend, filename, cwd, drop_variables, disk, pc, type_code, fgno,
                   frameno, output_format, outdir, fg, calls, q, mask, x, y, time,
                   i, qelements, data_vars, result, ds, fields, omask>>

\* _prepare_var(result, empty mask, ...)
OrientSecond ==
    /\ pc = "orient" /\ ostep = 1
    /\ oout' = _prepare_var(oout, EmptyMask(oout), <<"y", "x">>, "", "").data
    /\ ostep' = 2
    /\ UNCHANGED <<backend, filename, cwd, drop_variables, disk, pc, type_code, fgno,
                   frameno, output_format, outdir, fg, calls, q, mask, x, y, time,
                   i, qelements, data_vars, result, ds, fields, ofield, omask>>

NextOrient == OrientFirst \/ OrientSecond

SpecOrient == InitOrient /\ [][NextOrient]_vars

-----------------------------------------------------------------------------

Next ==
    \/ FGOutParse
    \/ FGOutConstruct
    \/ FGOutCheck
    \/ FGOutReadGrids
    \/ FGOutReadFrame
    \/ FGOutSetup
    \/ FGOutLoop
    \/ FGOutBuild
    \/ FGMaxParse
    \/ FGMaxLoad
    \/ FGMaxCheck
    \/ FGMaxRead
    \/ FGMaxAssemble
    \/ FGMaxDrop
    \/ FGMaxBuild

Spec == Init /\ [][Next]_vars

-----------------------------------------------------------------------------
(* Vocabulary of the properties *)

Range(L) == {L[k] : k \in 1..Len(L)}

GridCells == Cells(Len(disk.x), Len(disk.y))

\* the decoded depth of solver cell (xi, yi) is below the dry tolerance
DryCell(xi, yi) == disk.q[1][xi][yi] < DryTolerance

\* the value of fgout variable v at the output position of solver cell (xi, yi)
OutCell(v, xi, yi) == data_vars[v].data[1][Len(disk.y) + 1 - yi][xi]

\* the same for an fgmax variable (no time axis)
MaxOutCell(v, xi, yi) == data_vars[v].data[Len(disk.y) + 1 - yi][xi]

FrameDecoded == backend = "FGOut" /\ fg.record

Returned == pc = "done" /\ result = "Dataset"

GeoclawNames == {"h", "hu", "hv", "eta"}
DclawNames == {"h", "hu", "hv", "hm", "pb", "hchi", "delta_a", "eta"}

-----------------------------------------------------------------------------
(* C1: FGOutBackend.open_dataset dispatches the schema on the channel count
   of the decoded frame: with 4 channels the variables (before exclusions)
   are exactly h, hu, hv, eta; with 8 exactly the eight D-Claw names; with
   any other count the call raises and returns no container. *)
C1_SchemaDispatch ==
    (FrameDecoded /\ pc = "done") =>
        LET n == Len(disk.q)
            dropped == Range(DropList(drop_variables))
        IN  /\ n = 4 => (result = "Dataset" /\ DOMAIN ds.data_vars = GeoclawNames \ dropped)
            /\ n = 8 => (result = "Dataset" /\ DOMAIN ds.data_vars = DclawNames \ dropped)
            /\ n \notin {4, 8} => result # "Dataset"

-----------------------------------------------------------------------------
(* C2: for every non-elevation fgout variable and every cell, the output is
   the fill value exactly when the cell's original decoded depth is below
   the dry tolerance, and a cell at or above the tolerance keeps its decoded
   value; the mask is that of the original depths also for the channels
   handled after the depth channel was overwritten. *)
C2_MaskFromOriginalDepth ==
    (backend = "FGOut" /\ pc \in {"loop", "done"}) =>
        \A k \in 1..Len(qelements) :
            (qelements[k] # "eta" /\ qelements[k] \in DOMAIN data_vars) =>
                \A c \in GridCells :
                    /\ IsNaN(OutCell(qelements[k], c[1], c[2])) <=> DryCell(c[1], c[2])
                    /\ ~DryCell(c[1], c[2]) =>
                          OutCell(qelements[k], c[1], c[2]) = disk.q[k][c[1]][c[2]]

\* an 8-channel frame with a dry and a wet cell: the depth buffer holds the
\* fill value at the dry cell, and so does delta_a, which is handled last
C2_Witness ==
    /\ Returned /\ backend = "FGOut" /\ Len(disk.q) = 8
    /\ "delta_a" \in DOMAIN data_vars
    /\ \E c \in GridCells, w \in GridCells :
          /\ DryCell(c[1], c[2]) /\ ~DryCell(w[1], w[2])
          /\ IsNaN(q[1][c[1]][c[2]])
          /\ IsNaN(OutCell("delta_a", c[1], c[2]))
          /\ OutCell("delta_a", w[1], w[2]) = disk.q[7][w[1]][w[2]]

-----------------------------------------------------------------------------
(* C3 as stated: eta is masked by the depth mask in both schemas: in every
   dry cell the output eta is the fill value. *)
C3_EtaMaskedInBothSchemas ==
    (backend = "FGOut" /\ "eta" \in DOMAIN data_vars) =>
        \A c \in GridCells : DryCell(c[1], c[2]) => IsNaN(OutCell("eta", c[1], c[2]))

(* C3 as amended: eta is masked by the depth mask when it is one of the first
   seven channels (the 4-variable schema); in the 8-variable schema eta is
   the eighth channel and is not masked: every cell, dry or not, keeps its
   decoded value. *)
C3_EtaMaskedOnlyBelowChannel7 ==
    (backend = "FGOut" /\ "eta" \in DOMAIN data_vars) =>
        \A c \in GridCells :
            IF Len(disk.q) = 8
            THEN OutCell("eta", c[1], c[2]) = disk.q[8][c[1]][c[2]]
            ELSE /\ DryCell(c[1], c[2]) => IsNaN(OutCell("eta", c[1], c[2]))
                 /\ ~DryCell(c[1], c[2]) =>
                       OutCell("eta", c[1], c[2]) = disk.q[4][c[1]][c[2]]

\* an 8-channel frame returned with a dry cell whose eta is not the fill value
C3_Witness ==
    /\ Returned /\ backend = "FGOut" /\ Len(disk.q) = 8
    /\ "eta" \in DOMAIN ds.data_vars
    /\ \E c \in GridCells :
          /\ DryCell(c[1], c[2])
          /\ IsNaN(OutCell("h", c[1], c[2]))
          /\ ~IsNaN(OutCell("eta", c[1], c[2]))

-----------------------------------------------------------------------------
Digits4(s, from) == \A k \in from..(from + 3) : IsDigit(s[k])

Value4(s, from) ==
    1000 * DigitVal[s[from]] + 100 * DigitVal[s[from + 1]]
    + 10 * DigitVal[s[from + 2]] + DigitVal[s[from + 3]]

WellFormedFGOut(b) ==
    /\ Len(b) = 15
    /\ SubSeq(b, 1, 5) = NameFgout
    /\ Digits4(b, 6)
    /\ b[10] = "."
    /\ Digits4(b, 12)

(* C4: for a base name fgout<NNNN>.<c><MMMM> the grid id given to the
   metadata loader is NNNN, the frame id given to the frame decoder is MMMM,
   the encoding is ascii for c = 'q' and binary32 for c = 'b'; for any other
   c the call fails with ValueError and neither is invoked. *)
C4_FilenameParsing ==
    (backend = "FGOut" /\ WellFormedFGOut(filename.base) /\ pc # "start") =>
        LET b == filename.base
        IN  IF b[11] \in {"q", "b"}
            THEN /\ pc # "construct" => Len(calls) > 0
                 /\ \A k \in 1..Len(calls) :
                       /\ calls[k].fgno = Value4(b, 6)
                       /\ calls[k].format = (IF b[11] = "q" THEN "ascii" ELSE "binary32")
                       /\ calls[k].op = "read_frame" => calls[k].frameno = Value4(b, 12)
            ELSE pc = "done" /\ result = "ValueError" /\ calls = <<>>

\* fgout0007.q0707: the frame decoder was asked for frame 707 of grid 7, ascii
C4_Witness ==
    /\ backend = "FGOut" /\ WellFormedFGOut(filename.base)
    /\ \E k \in 1..Len(calls) :
          /\ calls[k].op = "read_frame"
          /\ calls[k].fgno = 7 /\ calls[k].frameno = 707
          /\ calls[k].format = "ascii"

-----------------------------------------------------------------------------
RECURSIVE TrailingDigits(_)
TrailingDigits(s) ==
    IF Len(s) = 0 \/ ~IsDigit(s[Len(s)]) THEN 0
    ELSE 1 + TrailingDigits(SubSeq(s, 1, Len(s) - 1))

FixedWidthIds(b, base) ==
    LET parts == Split(base, ".")
        ext == parts[Len(parts)]
    IN  /\ TrailingDigits(parts[1]) = 4
        /\ b = "FGOut" =>
              /\ Len(parts) >= 2
              /\ Len(ext) = 5
              /\ TrailingDigits(ext) = 4

(* C5: both readers reject every file name whose grid id (and, for fgout,
   frame id) is not a 4-digit fixed-width field: fewer or more than 4 digits,
   or a non-digit in the last-4 window, never yields a container. *)
C5_RejectsMalformedIds == Returned => FixedWidthIds(backend, filename.base)

-----------------------------------------------------------------------------
(* C6: both readers check the point style declared by the grid description
   after the description is loaded and before any record is read: when the
   description declares a style other than 2 the call raises and neither
   read_frame nor read_output is called. *)
C6_PointStyleCheckedAfterLoad ==
    /\ pc \in {"check", "max_check"} => fg.loaded
    /\ disk.point_style # RequiredPointStyle =>
          /\ ~fg.record
          /\ \A k \in 1..Len(calls) : calls[k].op \notin {"read_frame", "read_output"}
          /\ result # "Dataset"

-----------------------------------------------------------------------------
(* C7 as stated: the y coordinate of the returned container is strictly
   ascending, and x is the solver's x. *)
C7_YAscending ==
    Returned =>
        /\ \A k \in 1..(Len(ds.y) - 1) : ds.y[k] < ds.y[k + 1]
        /\ ds.x = disk.x

(* C7 as amended: the y coordinate of the returned container is the solver's
   ascending y reversed once, so it is strictly descending; x is the
   solver's ascending x unchanged. *)
C7_YReversedOnce ==
    Returned =>
        /\ Len(ds.y) = Len(disk.y)
        /\ \A k \in 1..Len(ds.y) : ds.y[k] = disk.y[Len(disk.y) + 1 - k]
        /\ \A k \in 1..(Len(ds.y) - 1) : ds.y[k] > ds.y[k + 1]
        /\ ds.x = disk.x
        /\ \A k \in 1..(Len(ds.x) - 1) : ds.x[k] < ds.x[k + 1]

\* a container with at least two rows, whose first y label is the largest
C7_Witness ==
    /\ Returned /\ backend = "FGOut"
    /\ Len(ds.y) >= 2 /\ Len(ds.x) >= 2
    /\ ds.y[1] = disk.y[Len(disk.y)]
    /\ ds.y[1] > ds.y[2]

-----------------------------------------------------------------------------
(* C8 as stated: applying _prepare_var to the result of a first application,
   with an empty mask, gives back the masked field in its original layout. *)
C8_RoundTrip == ostep = 2 => oout = ofield

(* C8 as amended: the second application gives the masked field with both
   axes reversed (turned by 180 degrees), in the original shape. *)
C8_TwiceIsHalfTurn ==
    ostep = 2 =>
        /\ Rows(oout) = Rows(ofield) /\ Cols(oout) = Cols(ofield)
        /\ \A r \in 1..Rows(ofield) : \A c \in 1..Cols(ofield) :
              oout[r][c] = ofield[Rows(ofield) + 1 - r][Cols(ofield) + 1 - c]

\* a 2 x 2 field with one masked cell, after the second application: the fill
\* value sits in the opposite corner
C8_Witness ==
    /\ ostep = 2
    /\ Rows(ofield) = 2 /\ Cols(ofield) = 2
    /\ omask[1][1] /\ ~omask[2][2]
    /\ IsNaN(ofield[1][1]) /\ IsNaN(oout[2][2]) /\ ~IsNaN(oout[1][1])

-----------------------------------------------------------------------------
(* C9: eta_max is derived: in every cell where h_max is not masked it is
   h_max + B, and where h_max is masked it is the fill value, although the
   depth buffer was masked in place before the sum was taken. *)
C9_EtaMaxDerived ==
    (backend = "FGMax" /\ pc \in {"max_drop", "done"} /\ fg.record
     /\ "eta_max" \in DOMAIN data_vars) =>
        \A c \in GridCells :
            LET h == disk.fgmax["h"]
                B == disk.fgmax["B"]
            IN  IF h.mask[c[1]][c[2]]
                THEN IsNaN(MaxOutCell("eta_max", c[1], c[2]))
                ELSE /\ MaxOutCell("eta_max", c[1], c[2])
                          = h.data[c[1]][c[2]] + B.data[c[1]][c[2]]
                     /\ "h_max" \in DOMAIN data_vars =>
                           MaxOutCell("eta_max", c[1], c[2])
                             = MaxOutCell("h_max", c[1], c[2]) + B.data[c[1]][c[2]]

\* a record with a masked and an unmasked cell: the depth buffer holds the
\* fill value in the masked cell, eta_max is the fill value there and the sum
\* elsewhere
C9_Witness ==
    /\ Returned /\ backend = "FGMax"
    /\ "eta_max" \in DOMAIN ds.data_vars
    /\ \E c \in GridCells, w \in GridCells :
          /\ disk.fgmax["h"].mask[c[1]][c[2]]
          /\ ~disk.fgmax["h"].mask[w[1]][w[2]]
          /\ IsNaN(fields["h"].data[c[1]][c[2]])
          /\ IsNaN(MaxOutCell("eta_max", c[1], c[2]))
          /\ MaxOutCell("eta_max", w[1], w[2])
               = disk.fgmax["h"].data[w[1]][w[2]] + disk.fgmax["B"].data[w[1]][w[2]]

-----------------------------------------------------------------------------
FGOutSchema(n) == IF n = 8 THEN DclawNames ELSE GeoclawNames

\* the record carries the channel: the attribute is there and is an array
Carries(fs, name) == name \in DOMAIN fs /\ fs[name].data # <<>>

FGMaxSchema(fs) ==
    {"arrival_time", "h_max", "eta_max", "h_max_time"}
    \cup (IF Carries(fs, "s") THEN {"s_max", "s_max_time"} ELSE {})
    \cup (IF Carries(fs, "hs")
          THEN {"hs_max", "hs_max_time", "hss_max", "hss_max_time", "h_min", "h_min_time"}
          ELSE {})

ListedNames == IF drop_variables.none THEN {} ELSE Range(drop_variables.items)

(* C10: exclusion is by name, order-independent and idempotent: the output
   variables are the schema's variables minus the set of names listed; a
   repeated or unknown name changes nothing and raises no error; None is the
   empty list. *)
C10_ExclusionByName ==
    (pc = "done" /\ fg.record) =>
        /\ backend = "FGOut" /\ Len(disk.q) \in {4, 8} =>
              /\ result = "Dataset"
              /\ DOMAIN ds.data_vars = FGOutSchema(Len(disk.q)) \ ListedNames
        /\ backend = "FGMax" =>
              /\ result = "Dataset"
              /\ DOMAIN ds.data_vars = FGMaxSchema(disk.fgmax) \ ListedNames

\* fgmax called with an unknown name followed by a schema name: only the
\* schema name is gone
C10_Witness ==
    /\ Returned /\ backend = "FGMax" /\ ~drop_variables.none
    /\ drop_variables.items = <<"bogus", "h_max">>
    /\ DOMAIN ds.data_vars = FGMaxSchema(disk.fgmax) \ {"h_max"}

-----------------------------------------------------------------------------
FGMaxAlways == {"arrival_time", "h_max", "eta_max", "h_max_time"}

FGMaxSpeed == {"s_max", "s_max_time"}

FGMaxMomentum ==
    {"hs_max", "hs_max_time", "hss_max", "hss_max_time", "h_min", "h_min_time"}

\* fgmax variables assembled, no exclusion applied yet
Assembled == backend = "FGMax" /\ pc = "max_drop" /\ i = 0

(* C11: FGMax populates only the channels present in the record: arrival_time,
   h_max, eta_max and h_max_time always; s_max and s_max_time exactly when the
   record carries the speed field; hs_max, hs_max_time, hss_max, hss_max_time,
   h_min and h_min_time exactly when it carries the momentum field.  An absent
   channel is left out, not filled: every variable made is a full ny-by-nx
   array, and the set of names before exclusions is one of the three schema
   sets of 4, 6 or 12 names. *)
C11_OnlyPresentChannels ==
    Assembled =>
        LET names == DOMAIN data_vars
        IN  /\ FGMaxAlways \subseteq names
            /\ \A v \in FGMaxSpeed : v \in names <=> Carries(disk.fgmax, "s")
            /\ \A v \in FGMaxMomentum : v \in names <=> Carries(disk.fgmax, "hs")
            /\ names \in {FGMaxAlways, FGMaxAlways \cup FGMaxSpeed,
                          FGMaxAlways \cup FGMaxSpeed \cup FGMaxMomentum}
            /\ \A v \in names :
                  /\ Rows(data_vars[v].data) = Len(disk.y)
                  /\ Cols(data_vars[v].data) = Len(disk.x)

\* a record with the speed channel whose momentum attributes are None: six
\* variables
C11_Witness ==
    /\ Assembled
    /\ "hs" \in DOMAIN disk.fgmax /\ disk.fgmax["hs"] = NoneAttr
    /\ Carries(disk.fgmax, "s")
    /\ DOMAIN data_vars = FGMaxAlways \cup FGMaxSpeed

-----------------------------------------------------------------------------
\* the other of the two schemas
OtherSchema(n) == IF n = 4 THEN 8 ELSE 4

(* C12: the description attribute of the container FGOutBackend builds
   distinguishes the two solver families: a frame decoded with the 4-variable
   schema and one decoded with the 8-variable schema get two different
   description strings, so the description of a returned container differs
   from the one a frame of the other schema is given. *)
C12_DescriptionPerSchema ==
    (Returned /\ backend = "FGOut" /\ Len(disk.q) \in {4, 8}) =>
        ds.description # FGOutDescription(OtherSchema(Len(disk.q)))

-----------------------------------------------------------------------------
\* the record's arrays that are handed to _prepare_var
FGMaxPrepared(fs) ==
    {"arrival_time", "h", "h_time"}
    \cup (IF Carries(fs, "s") THEN {"s", "s_time"} ELSE {})
    \cup (IF Carries(fs, "hs")
          THEN {"hs", "hs_time", "hss", "hss_time", "hmin", "hmin_time"} ELSE {})

RecordRead == backend = "FGMax" /\ fg.record

(* C13 as stated: the transform is pure; _prepare_var and the masking step of
   the fgout loop leave the decoded record's arrays unchanged, every cell,
   masked ones included, still holding its decoded value afterwards. *)
C13_InputBufferUnchanged ==
    /\ FrameDecoded => q = disk.q
    /\ RecordRead => \A f \in DOMAIN fields : fields[f].data = disk.fgmax[f].data

(* C13, amended: the transform masks its input in place.  Afterwards the
   decoded record's array holds the fill sentinel in every cell where the mask
   is true and its decoded value in every other cell; the arrays and channels
   not handed to the masking step (fgmax topography, fgout channels from
   index 7 on) are unchanged. *)
C13_InputBufferMaskedInPlace ==
    /\ FrameDecoded =>
          \A k \in 1..Len(q) : \A c \in GridCells :
              /\ \/ q[k][c[1]][c[2]] = disk.q[k][c[1]][c[2]]
                 \/ /\ k - 1 < EtaMaskLimit /\ DryCell(c[1], c[2])
                    /\ IsNaN(q[k][c[1]][c[2]])
              /\ Returned =>
                    q[k][c[1]][c[2]] =
                        IF k - 1 < EtaMaskLimit /\ DryCell(c[1], c[2])
                        THEN nodata ELSE disk.q[k][c[1]][c[2]]
    /\ (RecordRead /\ pc \in {"max_drop", "done"}) =>
          \A f \in DOMAIN fields :
              IF f \in FGMaxPrepared(disk.fgmax)
              THEN \A c \in GridCells :
                      fields[f].data[c[1]][c[2]] =
                          IF disk.fgmax[f].mask[c[1]][c[2]]
                          THEN nodata ELSE disk.fgmax[f].data[c[1]][c[2]]
              ELSE fields[f] = disk.fgmax[f]

\* an fgmax record with a masked and an unmasked arrival time: afterwards the
\* record's own array has the fill sentinel in the masked cell
C13_Witness ==
    /\ RecordRead /\ Returned
    /\ \E c \in GridCells, w \in GridCells :
          /\ disk.fgmax["arrival_time"].mask[c[1]][c[2]]
          /\ ~disk.fgmax["arrival_time"].mask[w[1]][w[2]]
          /\ ~IsNaN(disk.fgmax["arrival_time"].data[c[1]][c[2]])
          /\ IsNaN(fields["arrival_time"].data[c[1]][c[2]])
          /\ fields["arrival_time"].data[w[1]][w[2]]
               = disk.fgmax["arrival_time"].data[w[1]][w[2]]
    /\ fields["B"] = disk.fgmax["B"]

-----------------------------------------------------------------------------
\* the names of the schema a frame of n channels is decoded with
SchemaNames(n) == IF n = 8 THEN _qelements_dclaw ELSE _qelements_geoclaw

\* the channel (counted from 1) that variable v is made from
ChannelOf(v) ==
    CHOOSE k \in 1..Len(SchemaNames(Len(disk.q))) : SchemaNames(Len(disk.q))[k] = v

\* the solver value of channel k at cell (xi, yi) after masking
MaskedSolverValue(k, xi, yi) ==
    IF k - 1 < EtaMaskLimit /\ DryCell(xi, yi) THEN nodata ELSE disk.q[k][xi][yi]

(* C14: orientation is consistent with the coordinate labels: on a grid of nx
   columns and ny rows every fgout variable has shape (1, ny, nx), the time
   coordinate is the single frame time, and the value at output position
   (r, c) is the masked solver value at x-index c and y-index ny-1-r, the cell
   whose coordinates are the labels x_out[c] and y_out[r]; a dry cell at
   solver cell (0, 0) shows as the fill sentinel in the last row, first
   column. *)
C14_OrientationMatchesLabels ==
    (Returned /\ backend = "FGOut") =>
        LET nx == Len(disk.x)
            ny == Len(disk.y)
        IN  /\ ds.time = <<disk.t>>
            /\ Len(ds.x) = nx /\ Len(ds.y) = ny
            /\ \A v \in DOMAIN ds.data_vars :
                  LET D == ds.data_vars[v].data
                  IN  /\ ds.data_vars[v].dims = <<"time", "y", "x">>
                      /\ Len(D) = 1 /\ Len(D[1]) = ny
                      /\ \A r \in 1..ny :
                            /\ Len(D[1][r]) = nx
                            /\ \A c \in 1..nx :
                                  /\ D[1][r][c]
                                       = MaskedSolverValue(ChannelOf(v), c, ny + 1 - r)
                                  /\ ds.x[c] = disk.x[c]
                                  /\ ds.y[r] = disk.y[ny + 1 - r]

\* a 2 x 2 frame whose only dry cell is the first solver cell: h has the fill
\* sentinel in the last row, first column and decoded values elsewhere
C14_Witness ==
    /\ Returned /\ backend = "FGOut"
    /\ Len(disk.x) = 2 /\ Len(disk.y) = 2
    /\ "h" \in DOMAIN ds.data_vars
    /\ {c \in GridCells : DryCell(c[1], c[2])} = {<<1, 1>>}
    /\ LET H == ds.data_vars["h"].data[1]
       IN  /\ IsNaN(H[2][1])
           /\ H[2][2] = disk.q[1][2][1]
           /\ H[1][1] = disk.q[1][1][2]
           /\ H[1][2] = disk.q[1][2][2]
    /\ ds.x[1] < ds.x[2] /\ ds.y[1] > ds.y[2]

-----------------------------------------------------------------------------
\* the directory that contains the named file, as an absolute path
FileDir == IF filename.abs THEN filename.dirs ELSE cwd \o filename.dirs

\* the calls that read a file
ReadCalls ==
    {k \in 1..Len(calls) :
        calls[k].op \in {"read_fgout_grids_data", "read_frame",
                         "read_fgmax_grids_data", "read_output"}}

IsPrefix(p, s) == Len(p) <= Len(s) /\ SubSeq(s, 1, Len(p)) = p

(* C15 as stated: the files read are determined by the filename argument
   alone, not by the working directory: every read of the grid description,
   the frame or the accumulation output is made in the directory that contains
   the named file, wherever the call is made from. *)
C15_ReadsFromFileDirectory ==
    \A k \in ReadCalls : ReadDir(calls[k], cwd) = FileDir

(* C15, amended: the files read depend on the working directory.
   FGOutBackend hands the tools only the name of the last directory of the
   file's absolute path, which is looked up from the working directory, so
   its reads are made in the named file's directory exactly when the call is
   made from that directory's parent; FGMaxBackend hands the tools no
   directory at all, only the grid number, and its reads are made under the
   working directory. *)
C15_ReadsResolvedFromCwd ==
    \A k \in 1..Len(calls) :
        LET c == calls[k]
            last == IF FileDir = <<>> THEN <<>> ELSE <<FileDir[Len(FileDir)]>>
        IN  /\ backend = "FGOut" =>
                  /\ c.outdir = (IF last = <<>> THEN "" ELSE last[1])
                  /\ ReadDir(c, cwd) = cwd \o last
                  /\ ReadDir(c, cwd) = FileDir <=>
                        /\ FileDir # <<>>
                        /\ cwd = SubSeq(FileDir, 1, Len(FileDir) - 1)
            /\ backend = "FGMax" =>
                  /\ c.outdir = ""
                  /\ c.fgno \in {0, fgno}
                  /\ IsPrefix(cwd, ReadDir(c, cwd))

\* the frame named by an absolute path under /run/_output, opened from /tmp:
\* the reads are made in /tmp/_output
C15_Witness ==
    /\ backend = "FGOut" /\ Returned
    /\ filename.abs /\ filename.dirs = <<"run", "_output">> /\ cwd = <<"tmp">>
    /\ \E k \in ReadCalls :
          /\ calls[k].op = "read_frame"
          /\ ReadDir(calls[k], cwd) = <<"tmp", "_output">>
          /\ ReadDir(calls[k], cwd) # FileDir

====
